---- MODULE Spec2Model ----
(***************************************************************************)
(* Model of e3nn/point/kernelconv.py: the block-wise kernel convolution    *)
(* (kernel_conv_fn_forward), its hand-written adjoint                      *)
(* (KernelConvFn.forward / KernelConvFn.backward) and the module wrapper   *)
(* KernelConv.forward.                                                     *)
(*                                                                         *)
(* Tensors are modelled per channel of their block-structured axis         *)
(* (feature channel, harmonics channel, path entry).  A tensor entry is a  *)
(* formal sum (a bag) of contraction terms; a term records the operands of *)
(* one torch.einsum call.  Addition of tensors is bag union, the zero      *)
(* tensor is the empty bag, so "counted once", "counted twice" and         *)
(* "overwritten" are all visible.                                          *)
(***************************************************************************)
EXTENDS Integers, Sequences, FiniteSets, Bags, TLC

\* ---------------------------------------------------------------- bounds
MaxDim == 6        \* largest dim(Rs_in) + dim(Rs_out)
MaxLFilter == 1    \* largest filter order the selection rule may allow
MaxBatch == 1      \* largest batch size
MaxAtoms == 2      \* largest number of points (a = b = atoms, as in the tests)

VARIABLES
    Rs_in,             \* list of <<mul, l, p>>
    Rs_out,            \* list of <<mul, l, p>>
    get_l_filters,     \* <<l_in, p_in, l_out, p_out>> -> ascending list of orders
    set_of_l_filters,  \* list of the distinct filter orders
    pc,                \* "init", "applied", "returned", "backward", "error"
    batch, a, b,       \* leading sizes
    xyz,               \* trailing size of difference_geometry
    n_feat,            \* channel size of the feature tensor F
    custom_backward,   \* KernelConvFn.apply (TRUE) or plain autodiff (FALSE)
    requires_grad,     \* subset of {"F","Y","R"}
    ctx_saved,         \* tensors handed non-None to save_for_backward
    ctx_shapes,        \* which of F_shape, Y_shape, R_shape were set
    kernel_conv,       \* output of kernel_conv_fn_forward, per output channel
    fwd_trace,         \* blocks visited by kernel_conv_fn_forward
    mask,              \* <<z, point>> -> 0 or 1
    output,            \* what KernelConv.forward returns, per row and channel
    grad_F, grad_Y, grad_R,   \* results of backward (None when not requested)
    bwd_trace,         \* blocks visited by backward
    bwd_reads,         \* saved tensors backward dereferenced
    bwd_shape_reads    \* ctx shapes backward read

vars == <<Rs_in, Rs_out, get_l_filters, set_of_l_filters, pc, batch, a, b, xyz,
          n_feat, custom_backward, requires_grad, ctx_saved, ctx_shapes,
          kernel_conv, fwd_trace, mask, output, grad_F, grad_Y, grad_R,
          bwd_trace, bwd_reads, bwd_shape_reads>>

None == <<>>    \* a gradient that was not requested

\* ------------------------------------------------ representation lists
Parities == {0}    \* the tests use parity-free representations

MaxOrder == (MaxDim - 1) \div 2

BlockTypes == {t \in (1..MaxDim) \X (0..MaxOrder) \X Parities :
                   t[1] * (2 * t[2] + 1) <= MaxDim}

\* rs.dim
RECURSIVE dim(_)
dim(Rs) == IF Rs = <<>> THEN 0
           ELSE Head(Rs)[1] * (2 * Head(Rs)[2] + 1) + dim(Tail(Rs))

\* every representation list of total dimension at most d (the empty one too)
RECURSIVE RsUpTo(_)
RsUpTo(d) ==
    {<<>>} \cup UNION {{<<t>> \o r : r \in RsUpTo(d - t[1] * (2 * t[2] + 1))} :
                          t \in {u \in BlockTypes : u[1] * (2 * u[2] + 1) <= d}}

RsPairs == UNION {{<<rin, rout>> : rout \in RsUpTo(MaxDim - dim(rin)) \ {<<>>}} :
                      rin \in RsUpTo(MaxDim - 1) \ {<<>>}}

Min2(x, y) == IF x <= y THEN x ELSE y
Abs(x) == IF x < 0 THEN -x ELSE x

RECURSIVE SortedSeq(_)
SortedSeq(S) == IF S = {} THEN <<>>
                ELSE LET m == CHOOSE x \in S : \A y \in S : x <= y
                     IN <<m>> \o SortedSeq(S \ {m})

Range(s) == {s[k] : k \in DOMAIN s}

\* the keys get_l_filters is called with (lines 89 and 176)
Keys(rin, rout) == {<<rin[j][2], rin[j][3], rout[i][2], rout[i][3]>> :
                        i \in DOMAIN rout, j \in DOMAIN rin}

\* o3.selection_rule restricted to an allowed set of orders
SelectionRule(lfilter, rin, rout) ==
    [key \in Keys(rin, rout) |->
        SortedSeq({l \in lfilter : Abs(key[1] - key[3]) <= l /\ l <= key[1] + key[3]})]

FilterRules(rin, rout) ==
    {SelectionRule(lfilter, rin, rout) : lfilter \in SUBSET (0..MaxLFilter)}

UsedOrders(glf) == UNION {Range(glf[key]) : key \in DOMAIN glf}

Reverse(s) == [k \in DOMAIN s |-> s[Len(s) + 1 - k]]

\* the orders of S listed upwards, and listed downwards
Orderings(S) == {SortedSeq(S), Reverse(SortedSeq(S))}

\* Kernel.set_of_l_filters: the orders the harmonics tensor Y is built for
FilterOrderLists(glf) ==
    UNION {Orderings(S) : S \in {T \in SUBSET (0..MaxLFilter) : UsedOrders(glf) \subseteq T}}

\* ------------------------------------------------------ tensor helpers
Slice(lo, hi) == <<lo, hi>>
InSlice(c, s) == s[1] <= c /\ c < s[2]
Channels(s) == s[1]..(s[2] - 1)

\* Python slicing clamps a slice to the size of the axis
Clamp(s, size) == <<Min2(s[1], size), Min2(s[2], size)>>

Zeros(n) == [c \in 0..(n - 1) |-> EmptyBag]

\* torch.Tensor.is_contiguous: axes of size 1 are skipped, every other axis
\* must have the stride of a densely packed tensor
RECURSIVE contiguous_from(_, _, _, _)
contiguous_from(sizes, strides, d, z) ==
    IF d = 0 THEN TRUE
    ELSE IF sizes[d] = 1 THEN contiguous_from(sizes, strides, d - 1, z)
    ELSE strides[d] = z /\ contiguous_from(sizes, strides, d - 1, z * sizes[d])

is_contiguous(sizes, strides) == contiguous_from(sizes, strides, Len(sizes), 1)

\* the path size of R: the n_path the test computes for the radial model
RECURSIVE n_path_in(_, _)
n_path_in(i, j) ==
    IF j > Len(Rs_in) THEN 0
    ELSE Rs_out[i][1] * Rs_in[j][1]
           * Len(get_l_filters[<<Rs_in[j][2], Rs_in[j][3], Rs_out[i][2], Rs_out[i][3]>>])
         + n_path_in(i, j + 1)

RECURSIVE n_path_out(_)
n_path_out(i) == IF i > Len(Rs_out) THEN 0 ELSE n_path_in(i, 1) + n_path_out(i + 1)

n_path == n_path_out(1)

\* size of the harmonics axis of Y: sh(set_of_l_filters, r)
RECURSIVE y_dim(_)
y_dim(sol) == IF sol = <<>> THEN 0 ELSE 2 * Head(sol) + 1 + y_dim(Tail(sol))

\* ------------------------------------------ kernel_conv_fn_forward
\* mutant of fwd_n: the number of filters is forgotten
fwd_n_without_filters(mul_out, mul_in, l_filters) == mul_out * mul_in

\* line 94
fwd_n(mul_out, mul_in, l_filters) == mul_out * mul_in * Len(l_filters)

\* mutant of fwd_offset: l <= l_filter in place of l < l_filter
RECURSIVE fwd_offset_inclusive(_, _)
fwd_offset_inclusive(sol, l_filter) ==
    IF sol = <<>> THEN 0
    ELSE (IF Head(sol) <= l_filter THEN 2 * Head(sol) + 1 ELSE 0)
         + fwd_offset_inclusive(Tail(sol), l_filter)

\* line 104: sum(2 * l + 1 for l in set_of_l_filters if l < l_filter)
RECURSIVE fwd_offset(_, _)
fwd_offset(sol, l_filter) ==
    IF sol = <<>> THEN 0
    ELSE (IF Head(sol) < l_filter THEN 2 * Head(sol) + 1 ELSE 0)
         + fwd_offset(Tail(sol), l_filter)

\* lines 95-97, 111: the path entries of sub_R[..., k] after
\* R[..., begin_R:begin_R+n].view(batch, a, b, mul_out, mul_in, -1)
sub_R_k(begin_R, mul_out, mul_in, num_filters, k) ==
    {begin_R + (u * mul_in + v) * num_filters + (k - 1) :
         u \in 0..(mul_out - 1), v \in 0..(mul_in - 1)}

\* lines 109-112: the operands of one einsum call
fwd_term(i, j, k, l_filters, begin_R, s_in) ==
    LET mul_out == Rs_out[i][1]
        l_out == Rs_out[i][2]
        mul_in == Rs_in[j][1]
        l_in == Rs_in[j][2]
        l_filter == l_filters[k]
        offset == fwd_offset(set_of_l_filters, l_filter)
    IN [gK |-> <<>>,
        C |-> <<l_out, l_in, l_filter>>,
        Y |-> Slice(offset, offset + 2 * l_filter + 1),
        R |-> sub_R_k(begin_R, mul_out, mul_in, Len(l_filters), k),
        norm |-> <<i, j>>,
        F |-> Clamp(s_in, n_feat)]

\* lines 102-112: K = 0; for k: K += einsum(...)
RECURSIVE fwd_K(_, _, _, _, _, _)
fwd_K(i, j, l_filters, begin_R, s_in, k) ==
    IF k > Len(l_filters) THEN EmptyBag
    ELSE SetToBag({fwd_term(i, j, k, l_filters, begin_R, s_in)})
         (+) fwd_K(i, j, l_filters, begin_R, s_in, k + 1)

\* mutant of fwd_accumulate: = in place of +=
fwd_overwrite(kc, s_out, K) ==
    [c \in DOMAIN kc |-> IF InSlice(c, s_out) THEN K ELSE kc[c]]

\* line 115: kernel_conv[:, :, s_out] += K
fwd_accumulate(kc, s_out, K) ==
    [c \in DOMAIN kc |-> IF InSlice(c, s_out) THEN kc[c] (+) K ELSE kc[c]]

\* line 111: F[..., s_in].view(batch, b, mul_in, -1) and its use in einsum.
\* A clamped slice of the wrong width makes view fail when it is empty or
\* not a multiple of mul_in; a width giving a last axis of size 1 is
\* broadcast by some einsum implementations and rejected by others.
f_view(s_in, mul_in, l_in) ==
    LET w == Clamp(s_in, n_feat)[2] - Clamp(s_in, n_feat)[1]
    IN IF w = mul_in * (2 * l_in + 1) THEN "ok"
       ELSE IF w = 0 \/ w % mul_in # 0 THEN "error"
       ELSE IF w \div mul_in = 1 THEN "either"
       ELSE "error"

Worse(s, t) == IF "error" \in {s, t} THEN "error"
               ELSE IF "either" \in {s, t} THEN "either" ELSE "ok"

\* lines 85-115: the body of the inner loop for one pair (i, j)
fwd_pair(st, i, j, s_out, s_in) ==
    LET mul_out == Rs_out[i][1]
        mul_in == Rs_in[j][1]
        l_filters == get_l_filters[<<Rs_in[j][2], Rs_in[j][3], Rs_out[i][2], Rs_out[i][3]>>]
        n == fwd_n(mul_out, mul_in, l_filters)
    IN IF l_filters = <<>>
       THEN [st EXCEPT !.trace = Append(@,
                [i |-> i, j |-> j, s_out |-> s_out, s_in |-> s_in, l_filters |-> <<>>,
                 begin_R |-> st.begin_R, n |-> 0, offsets |-> <<>>])]
       ELSE [begin_R |-> st.begin_R + n,
             kc |-> fwd_accumulate(st.kc, s_out,
                        fwd_K(i, j, l_filters, st.begin_R, s_in, 1)),
             trace |-> Append(st.trace,
                [i |-> i, j |-> j, s_out |-> s_out, s_in |-> s_in,
                 l_filters |-> l_filters, begin_R |-> st.begin_R, n |-> n,
                 offsets |-> [k \in 1..Len(l_filters) |->
                                 fwd_offset(set_of_l_filters, l_filters[k])]]),
             status |-> Worse(st.status, f_view(s_in, mul_in, Rs_in[j][2]))]

\* lines 84-87: the inner loop over the input blocks
RECURSIVE fwd_inner(_, _, _, _, _)
fwd_inner(st, i, j, begin_in, s_out) ==
    IF j > Len(Rs_in) THEN st
    ELSE LET s_in == Slice(begin_in, begin_in + Rs_in[j][1] * (2 * Rs_in[j][2] + 1))
         IN fwd_inner(fwd_pair(st, i, j, s_out, s_in), i, j + 1, s_in[2], s_out)

\* lines 79-82: the outer loop over the output blocks
RECURSIVE fwd_outer(_, _, _)
fwd_outer(st, i, begin_out) ==
    IF i > Len(Rs_out) THEN st
    ELSE LET s_out == Slice(begin_out, begin_out + Rs_out[i][1] * (2 * Rs_out[i][2] + 1))
         IN fwd_outer(fwd_inner(st, i, 1, 0, s_out), i + 1, s_out[2])

\* lines 70-117
kernel_conv_fn_forward ==
    fwd_outer([begin_R |-> 0, kc |-> Zeros(dim(Rs_out)), trace |-> <<>>, status |-> "ok"],
              1, 0)

\* ------------------------------------------------ KernelConvFn.forward
\* mutant of saved_tensors: each input that requires a gradient is itself kept
saved_tensors_own(rg) == rg

\* lines 131-144: what is handed non-None to ctx.save_for_backward
saved_tensors(rg) ==
    (IF "F" \in rg THEN {"R", "Y"} ELSE {})
    \cup (IF "Y" \in rg THEN {"R", "F"} ELSE {})
    \cup (IF "R" \in rg THEN {"Y", "F"} ELSE {})

\* lines 133, 137, 141: ctx.F_shape, ctx.Y_shape, ctx.R_shape
saved_shapes(rg) ==
    (IF "F" \in rg THEN {"F"} ELSE {})
    \cup (IF "Y" \in rg THEN {"Y"} ELSE {})
    \cup (IF "R" \in rg THEN {"R"} ELSE {})

\* what a call can end in, given the status of its einsum calls
Outcomes(status, done) ==
    IF status = "ok" THEN {done}
    ELSE IF status = "error" THEN {"error"} ELSE {done, "error"}

\* lines 122-148: KernelConvFn.apply called directly, as the test does
KernelConvFn_forward ==
    /\ pc = "init"
    /\ \E st \in {kernel_conv_fn_forward} :
          /\ ctx_saved' = saved_tensors(requires_grad)
          /\ ctx_shapes' = saved_shapes(requires_grad)
          /\ pc' \in Outcomes(st.status, "applied")
          /\ kernel_conv' = IF pc' = "applied" THEN st.kc ELSE kernel_conv
          /\ fwd_trace' = st.trace
    /\ UNCHANGED <<Rs_in, Rs_out, get_l_filters, set_of_l_filters, batch, a, b, xyz,
                   n_feat, custom_backward, requires_grad, mask, output,
                   grad_F, grad_Y, grad_R, bwd_trace, bwd_reads, bwd_shape_reads>>

\* ----------------------------------------------- KernelConvFn.backward
\* ctx.needs_input_grad[0..2]: autograd sets it from the inputs' requires_grad
needs_input_grad == requires_grad

\* line 180
bwd_n(mul_out, mul_in, l_filters) == mul_out * mul_in * Len(l_filters)

\* line 204: tmp = sum(2 * l + 1 for l in ctx.set_of_l_filters if l < l_filter)
RECURSIVE bwd_offset(_, _)
bwd_offset(sol, l_filter) ==
    IF sol = <<>> THEN 0
    ELSE (IF Head(sol) < l_filter THEN 2 * Head(sol) + 1 ELSE 0)
         + bwd_offset(Tail(sol), l_filter)

\* lines 182-184: the path entries of sub_R[..., k] (and of sub_grad_R[..., k])
bwd_sub_R_k(begin_R, mul_out, mul_in, num_filters, k) ==
    {begin_R + (u * mul_in + v) * num_filters + (k - 1) :
         u \in 0..(mul_out - 1), v \in 0..(mul_in - 1)}

\* lines 211-214: operands of the einsum added to sub_grad_F
bwd_term_F(i, j, k, l_filters, begin_R, s_out) ==
    LET l_filter == l_filters[k]
        tmp == bwd_offset(set_of_l_filters, l_filter)
    IN [gK |-> s_out,
        C |-> <<Rs_out[i][2], Rs_in[j][2], l_filter>>,
        Y |-> Slice(tmp, tmp + 2 * l_filter + 1),
        R |-> bwd_sub_R_k(begin_R, Rs_out[i][1], Rs_in[j][1], Len(l_filters), k),
        norm |-> <<i, j>>,
        F |-> <<>>]

\* lines 216-219: operands of the einsum added to grad_Y
bwd_term_Y(i, j, k, l_filters, begin_R, s_out, s_in) ==
    [gK |-> s_out,
     C |-> <<Rs_out[i][2], Rs_in[j][2], l_filters[k]>>,
     Y |-> <<>>,
     R |-> bwd_sub_R_k(begin_R, Rs_out[i][1], Rs_in[j][1], Len(l_filters), k),
     norm |-> <<i, j>>,
     F |-> Clamp(s_in, n_feat)]

\* lines 221-224: operands of the einsum stored in sub_grad_R[..., k]
bwd_term_R(i, j, k, l_filters, s_out, s_in) ==
    LET l_filter == l_filters[k]
        tmp == bwd_offset(set_of_l_filters, l_filter)
    IN [gK |-> s_out,
        C |-> <<Rs_out[i][2], Rs_in[j][2], l_filter>>,
        Y |-> Slice(tmp, tmp + 2 * l_filter + 1),
        R |-> {},
        norm |-> <<i, j>>,
        F |-> Clamp(s_in, n_feat)]

\* line 191: does grad_F[:, :, s_in].contiguous() return the slice itself?
\* grad_F has shape [batch, b, n_feat]
sub_grad_F_is_view(s_in) ==
    is_contiguous(<<batch, b, s_in[2] - s_in[1]>>, <<b * n_feat, n_feat, 1>>)

\* line 186: does grad_R[:, :, :, begin_R:begin_R+n].contiguous() return the
\* slice itself?  grad_R has shape [batch, a, b, n_path]
sub_grad_R_is_view(n) ==
    is_contiguous(<<batch, a, b, n>>, <<a * b * n_path, b * n_path, n_path, 1>>)

\* a write to a tensor that shares storage with a slice of base also
\* changes base; a write to a copy does not
write_through(base, sub, is_view) ==
    IF is_view THEN [c \in DOMAIN base |-> IF c \in DOMAIN sub THEN sub[c] ELSE base[c]]
    ELSE base

\* lines 210-214, over the loop of line 203: sub_grad_F += einsum(...)
RECURSIVE bwd_sum_F(_, _, _, _, _, _)
bwd_sum_F(i, j, l_filters, begin_R, s_out, k) ==
    IF k > Len(l_filters) THEN EmptyBag
    ELSE SetToBag({bwd_term_F(i, j, k, l_filters, begin_R, s_out)})
         (+) bwd_sum_F(i, j, l_filters, begin_R, s_out, k + 1)

\* mutant of bwd_accumulate_Y: = in place of +=
bwd_assign_Y(gY, s_Y, term) ==
    [c \in DOMAIN gY |-> IF InSlice(c, s_Y) THEN SetToBag({term}) ELSE gY[c]]

\* line 216: grad_Y[tmp: tmp + 2 * l_filter + 1, ...] += einsum(...)
bwd_accumulate_Y(gY, s_Y, term) ==
    [c \in DOMAIN gY |-> IF InSlice(c, s_Y) THEN gY[c] (+) SetToBag({term}) ELSE gY[c]]

\* lines 215-219, over the loop of line 203
RECURSIVE bwd_loop_Y(_, _, _, _, _, _, _, _)
bwd_loop_Y(gY, i, j, l_filters, begin_R, s_out, s_in, k) ==
    IF k > Len(l_filters) THEN gY
    ELSE LET tmp == bwd_offset(set_of_l_filters, l_filters[k])
         IN bwd_loop_Y(
                bwd_accumulate_Y(gY, Slice(tmp, tmp + 2 * l_filters[k] + 1),
                                 bwd_term_Y(i, j, k, l_filters, begin_R, s_out, s_in)),
                i, j, l_filters, begin_R, s_out, s_in, k + 1)

\* line 221: sub_grad_R[..., k] = einsum(...)
bwd_assign_R_k(sub, entries, term) ==
    [p \in DOMAIN sub |-> IF p \in entries THEN SetToBag({term}) ELSE sub[p]]

\* lines 220-224, over the loop of line 203
RECURSIVE bwd_loop_R(_, _, _, _, _, _, _, _)
bwd_loop_R(sub, i, j, l_filters, begin_R, s_out, s_in, k) ==
    IF k > Len(l_filters) THEN sub
    ELSE bwd_loop_R(
             bwd_assign_R_k(sub,
                 bwd_sub_R_k(begin_R, Rs_out[i][1], Rs_in[j][1], Len(l_filters), k),
                 bwd_term_R(i, j, k, l_filters, s_out, s_in)),
             i, j, l_filters, begin_R, s_out, s_in, k + 1)

\* mutant of bwd_writeback_F: += in place of =
bwd_writeback_F_add(gF, sub) ==
    [c \in DOMAIN gF |-> IF c \in DOMAIN sub THEN gF[c] (+) sub[c] ELSE gF[c]]

\* line 226: grad_F[:, :, s_in] = sub_grad_F
bwd_writeback_F(gF, sub) ==
    [c \in DOMAIN gF |-> IF c \in DOMAIN sub THEN sub[c] ELSE gF[c]]

\* line 228: grad_R[..., begin_R: begin_R + n] += sub_grad_R
bwd_writeback_R(gR, sub) ==
    [p \in DOMAIN gR |-> IF p \in DOMAIN sub THEN gR[p] (+) sub[p] ELSE gR[p]]

\* lines 181-195, 207-208: the saved tensors one visited pair dereferences
bwd_pair_reads(needs) ==
    (IF "Y" \in needs \/ "F" \in needs THEN {"R"} ELSE {})
    \cup (IF "Y" \in needs \/ "R" \in needs THEN {"F"} ELSE {})
    \cup (IF "F" \in needs \/ "R" \in needs THEN {"Y"} ELSE {})

\* mutant of bwd_next_begin_R: begin_R advances only under `if grad_R is not None`
bwd_next_begin_R_with_grad_R(begin_R, n) ==
    IF "R" \in needs_input_grad THEN begin_R + n ELSE begin_R

\* line 229 (and the `continue` of line 178, which skips it)
bwd_next_begin_R(begin_R, n) == begin_R + n

\* lines 172-229: the body of the inner loop for one pair (i, j)
bwd_pair(st, i, j, s_out, s_in) ==
    LET mul_out == Rs_out[i][1]
        mul_in == Rs_in[j][1]
        l_filters == get_l_filters[<<Rs_in[j][2], Rs_in[j][3], Rs_out[i][2], Rs_out[i][3]>>]
        n == bwd_n(mul_out, mul_in, l_filters)
        needs == needs_input_grad
        sub_grad_F == [c \in Channels(s_in) |->
                          st.gF[c] (+) bwd_sum_F(i, j, l_filters, st.begin_R, s_out, 1)]
        sub_grad_R == bwd_loop_R([p \in st.begin_R..(st.begin_R + n - 1) |-> st.gR[p]],
                                 i, j, l_filters, st.begin_R, s_out, s_in, 1)
    IN IF l_filters = <<>>
       THEN [st EXCEPT !.trace = Append(@,
                [i |-> i, j |-> j, s_out |-> s_out, s_in |-> s_in, l_filters |-> <<>>,
                 begin_R |-> st.begin_R, n |-> 0, offsets |-> <<>>])]
       ELSE [begin_R |-> bwd_next_begin_R(st.begin_R, n),
             gF |-> IF "F" \in needs
                    THEN bwd_writeback_F(
                             write_through(st.gF, sub_grad_F, sub_grad_F_is_view(s_in)),
                             sub_grad_F)
                    ELSE st.gF,
             gY |-> IF "Y" \in needs
                    THEN bwd_loop_Y(st.gY, i, j, l_filters, st.begin_R, s_out, s_in, 1)
                    ELSE st.gY,
             gR |-> IF "R" \in needs
                    THEN bwd_writeback_R(
                             write_through(st.gR, sub_grad_R, sub_grad_R_is_view(n)),
                             sub_grad_R)
                    ELSE st.gR,
             trace |-> Append(st.trace,
                [i |-> i, j |-> j, s_out |-> s_out, s_in |-> s_in,
                 l_filters |-> l_filters, begin_R |-> st.begin_R, n |-> n,
                 offsets |-> [k \in 1..Len(l_filters) |->
                                 bwd_offset(set_of_l_filters, l_filters[k])]]),
             reads |-> st.reads \cup bwd_pair_reads(needs)]

\* lines 171-174: the inner loop over the input blocks
RECURSIVE bwd_inner(_, _, _, _, _)
bwd_inner(st, i, j, begin_in, s_out) ==
    IF j > Len(Rs_in) THEN st
    ELSE LET s_in == Slice(begin_in, begin_in + Rs_in[j][1] * (2 * Rs_in[j][2] + 1))
         IN bwd_inner(bwd_pair(st, i, j, s_out, s_in), i, j + 1, s_in[2], s_out)

\* lines 166-169: the outer loop over the output blocks
RECURSIVE bwd_outer(_, _, _)
bwd_outer(st, i, begin_out) ==
    IF i > Len(Rs_out) THEN st
    ELSE LET s_out == Slice(begin_out, begin_out + Rs_out[i][1] * (2 * Rs_out[i][2] + 1))
         IN bwd_outer(bwd_inner(st, i, 1, 0, s_out), i + 1, s_out[2])

\* lines 157-162: the ctx shapes read to allocate the requested gradients
bwd_shapes_read(needs) == needs

\* lines 152-231
backward ==
    bwd_outer([begin_R |-> 0,
               gF |-> IF "F" \in needs_input_grad THEN Zeros(n_feat) ELSE None,
               gY |-> IF "Y" \in needs_input_grad THEN Zeros(y_dim(set_of_l_filters)) ELSE None,
               gR |-> IF "R" \in needs_input_grad THEN Zeros(n_path) ELSE None,
               trace |-> <<>>,
               reads |-> {}],
              1, 0)

\* KernelConvFn.backward, run by autograd after a forward through KernelConvFn.apply
KernelConvFn_backward ==
    /\ pc = "applied"
    /\ needs_input_grad # {}
    /\ \E st \in {backward} :
          /\ bwd_reads' = st.reads
          /\ bwd_shape_reads' = bwd_shapes_read(needs_input_grad)
          /\ bwd_trace' = st.trace
          /\ IF st.reads \subseteq ctx_saved /\ bwd_shapes_read(needs_input_grad) \subseteq ctx_shapes
             THEN /\ pc' = "backward"
                  /\ grad_F' = st.gF
                  /\ grad_Y' = st.gY
                  /\ grad_R' = st.gR
             ELSE /\ pc' = "error"     \* a None tensor or a missing attribute
                  /\ UNCHANGED <<grad_F, grad_Y, grad_R>>
    /\ UNCHANGED <<Rs_in, Rs_out, get_l_filters, set_of_l_filters, batch, a, b, xyz,
                   n_feat, custom_backward, requires_grad, ctx_saved, ctx_shapes,
                   kernel_conv, fwd_trace, mask, output>>

\* --------------------------------------------------- KernelConv.forward
\* mutant of mask_multiply: the mask is not applied
mask_ignored(kc, m) == [r \in DOMAIN m |-> kc]

\* line 59: kernel_conv * mask.unsqueeze(-1)
mask_multiply(kc, m) ==
    [r \in DOMAIN m |-> [c \in DOMAIN kc |-> IF m[r] = 0 THEN EmptyBag ELSE kc[c]]]

\* lines 32-59
KernelConv_forward ==
    /\ pc = "init"
    /\ IF xyz # 3
       THEN /\ pc' = "error"      \* line 33: assert xyz == 3
            /\ UNCHANGED <<ctx_saved, ctx_shapes, kernel_conv, fwd_trace, output>>
       ELSE \E st \in {kernel_conv_fn_forward} :
               /\ ctx_saved' = IF custom_backward THEN saved_tensors(requires_grad) ELSE {}
               /\ ctx_shapes' = IF custom_backward THEN saved_shapes(requires_grad) ELSE {}
               /\ pc' \in Outcomes(st.status, "returned")
               /\ kernel_conv' = IF pc' = "returned" THEN st.kc ELSE kernel_conv
               /\ fwd_trace' = st.trace
               /\ output' = IF pc' = "returned" THEN mask_multiply(st.kc, mask) ELSE output
    /\ UNCHANGED <<Rs_in, Rs_out, get_l_filters, set_of_l_filters, batch, a, b, xyz,
                   n_feat, custom_backward, requires_grad, mask,
                   grad_F, grad_Y, grad_R, bwd_trace, bwd_reads, bwd_shape_reads>>

\* ------------------------------------------------------ specifications
GradSubsets == SUBSET {"F", "Y", "R"} \ {{}}

\* what no call has produced yet
Fresh ==
    /\ pc = "init"
    /\ ctx_saved = {}
    /\ ctx_shapes = {}
    /\ kernel_conv = <<>>
    /\ fwd_trace = <<>>
    /\ output = <<>>
    /\ grad_F = None
    /\ grad_Y = None
    /\ grad_R = None
    /\ bwd_trace = <<>>
    /\ bwd_reads = {}
    /\ bwd_shape_reads = {}

\* the arguments of one call of KernelConvFn.apply, built as TestKernelConvFn
\* builds them: F of dim(Rs_in) channels, R of n_path entries, any non-empty
\* choice of the inputs that require a gradient
Init ==
    /\ \E rr \in RsPairs : Rs_in = rr[1] /\ Rs_out = rr[2]
    /\ get_l_filters \in FilterRules(Rs_in, Rs_out)
    /\ set_of_l_filters \in FilterOrderLists(get_l_filters)
    /\ batch \in 1..MaxBatch
    /\ a \in 1..MaxAtoms
    /\ b = a
    /\ xyz = 3
    /\ n_feat = dim(Rs_in)
    /\ custom_backward = TRUE
    /\ requires_grad \in GradSubsets
    /\ mask = [r \in (1..batch) \X (1..a) |-> 1]
    /\ Fresh

Next == KernelConvFn_forward \/ KernelConvFn_backward

Spec == Init /\ [][Next]_vars

\* by how much the trailing size of the geometry exceeds 3 and how many
\* channels the features lack: nothing, or one of the two is off by one
WrongBy == {<<0, 0>>, <<0, 1>>, <<0, -1>>, <<1, 0>>, <<-1, 0>>}

\* the arguments of one call of KernelConv.forward: any mask, either path, a
\* geometry or a feature tensor that may have the wrong trailing size
InitModule ==
    /\ \E rr \in RsPairs : Rs_in = rr[1] /\ Rs_out = rr[2]
    /\ get_l_filters \in FilterRules(Rs_in, Rs_out)
    /\ set_of_l_filters = SortedSeq(UsedOrders(get_l_filters))
    /\ batch \in 1..MaxBatch
    /\ a \in 1..MaxAtoms
    /\ b = a
    /\ \E shape \in WrongBy : xyz = 3 + shape[1] /\ n_feat = dim(Rs_in) - shape[2]
    /\ custom_backward \in BOOLEAN
    /\ requires_grad = {"F", "R"}
    /\ mask \in [(1..batch) \X (1..a) -> {0, 1}]
    /\ Fresh

NextModule == KernelConv_forward

SpecModule == InitModule /\ [][NextModule]_vars

\* ------------------------------------------- what the claims refer to
\* These definitions state the expected results in closed form, from the
\* block structure alone, without the running offsets the code keeps.
Filters(i, j) == get_l_filters[<<Rs_in[j][2], Rs_in[j][3], Rs_out[i][2], Rs_out[i][3]>>]

BlockSlice(Rs, idx) ==
    LET lo == dim(SubSeq(Rs, 1, idx - 1))
    IN <<lo, lo + Rs[idx][1] * (2 * Rs[idx][2] + 1)>>

PairSize(i, j) == Rs_out[i][1] * Rs_in[j][1] * Len(Filters(i, j))

Pairs == (DOMAIN Rs_out) \X (DOMAIN Rs_in)

Visited == {q \in Pairs : Filters(q[1], q[2]) # <<>>}

RECURSIVE SumOfSizes(_)
SumOfSizes(S) == IF S = {} THEN 0
                 ELSE LET q == CHOOSE x \in S : TRUE
                      IN PairSize(q[1], q[2]) + SumOfSizes(S \ {q})

\* the first path entry of pair (i, j): the sizes of all pairs before it
PathStart(i, j) ==
    SumOfSizes({q \in Pairs : q[1] < i \/ (q[1] = i /\ q[2] < j)})

\* the path entries of (i, j, k): R[..., pair] seen as [mul_out, mul_in, filter]
PathEntries(i, j, k) ==
    {PathStart(i, j) + (u * Rs_in[j][1] + v) * Len(Filters(i, j)) + (k - 1) :
         u \in 0..(Rs_out[i][1] - 1), v \in 0..(Rs_in[j][1] - 1)}

\* the harmonics axis of Y: the orders in ascending order, order l repeated
\* 2l+1 times
RECURSIVE AscendingY(_)
AscendingY(sorted) ==
    IF sorted = <<>> THEN <<>>
    ELSE [m \in 1..(2 * Head(sorted) + 1) |-> Head(sorted)] \o AscendingY(Tail(sorted))

YBlock(l) ==
    LET cat == AscendingY(SortedSeq(Range(set_of_l_filters)))
    IN {c - 1 : c \in {d \in DOMAIN cat : cat[d] = l}}

YSliceOf(l) ==
    LET blk == YBlock(l)
        lo == CHOOSE c \in blk : \A d \in blk : c <= d
    IN <<lo, lo + Cardinality(blk)>>

Triples == {t \in Pairs \X (0..(MaxLFilter + 1)) :
                t[2] >= 1 /\ t[2] <= Len(Filters(t[1][1], t[1][2]))}

\* the contraction term of block (i, j, k)
ExpectedTerm(i, j, k) ==
    [gK |-> <<>>,
     C |-> <<Rs_out[i][2], Rs_in[j][2], Filters(i, j)[k]>>,
     Y |-> YSliceOf(Filters(i, j)[k]),
     R |-> PathEntries(i, j, k),
     norm |-> <<i, j>>,
     F |-> BlockSlice(Rs_in, j)]

\* its adjoint: the incoming gradient of output block i takes the place of
\* the operand the derivative is taken in
AdjointF(i, j, k) == [ExpectedTerm(i, j, k) EXCEPT !.gK = BlockSlice(Rs_out, i), !.F = <<>>]
AdjointY(i, j, k) == [ExpectedTerm(i, j, k) EXCEPT !.gK = BlockSlice(Rs_out, i), !.Y = <<>>]
AdjointR(i, j, k) == [ExpectedTerm(i, j, k) EXCEPT !.gK = BlockSlice(Rs_out, i), !.R = {}]

\* ------------------------------------------------------------- claims
\* C1: after kernel_conv_fn_forward every channel of output block i holds
\* exactly the sum of the terms of all (i, j, k) with non-empty filter list,
\* each once; a block without any such pair is zero.
C1_ForwardIsSumOfBlockTerms ==
    pc = "applied" =>
        \A i \in DOMAIN Rs_out :
            \A sum \in {SetToBag({ExpectedTerm(t[1][1], t[1][2], t[2]) :
                                    t \in {u \in Triples : u[1][1] = i}})} :
               \A c \in Channels(BlockSlice(Rs_out, i)) : kernel_conv[c] = sum

C1_Witness ==
    /\ pc = "applied"
    /\ \E i \in DOMAIN Rs_out : Cardinality({q \in Visited : q[1] = i}) >= 2
    /\ \E i \in DOMAIN Rs_out : {q \in Visited : q[1] = i} = {}

\* C2: after backward, with the gradient of F requested, every channel of
\* input block j of grad_F holds the adjoint terms of all (i, j, k), each
\* exactly once, whether or not sub_grad_F shares storage with grad_F.
C2_GradFAccumulates ==
    (pc = "backward" /\ "F" \in requires_grad) =>
        \A j \in DOMAIN Rs_in :
            \A sum \in {SetToBag({AdjointF(t[1][1], t[1][2], t[2]) :
                                    t \in {u \in Triples : u[1][2] = j}})} :
               \A c \in Channels(BlockSlice(Rs_in, j)) : grad_F[c] = sum

C2_Witness ==
    /\ pc = "backward"
    /\ requires_grad = {"F", "Y", "R"}
    /\ \E j \in DOMAIN Rs_in :
          /\ Cardinality({q \in Visited : q[2] = j}) >= 2
          /\ sub_grad_F_is_view(BlockSlice(Rs_in, j))

\* C3: after backward, with the gradient of R requested, the path entries of
\* (i, j, k) in grad_R hold exactly one copy of the adjoint term of (i, j, k).
C3_GradRSingleCopy ==
    (pc = "backward" /\ "R" \in requires_grad) =>
        \A t \in Triples :
            \A one \in {SetToBag({AdjointR(t[1][1], t[1][2], t[2])})} :
               \A p \in PathEntries(t[1][1], t[1][2], t[2]) : grad_R[p] = one

\* C4: after backward, with the gradient of Y requested, the slice of
\* grad_Y of filter order l holds the adjoint terms of every (i, j, k) whose
\* filter order is l, each once; the slice of an unused order is zero.
C4_GradYAccumulates ==
    (pc = "backward" /\ "Y" \in requires_grad) =>
        /\ DOMAIN grad_Y = UNION {YBlock(l) : l \in Range(set_of_l_filters)}
        /\ \A l \in Range(set_of_l_filters) :
              \A sum \in {SetToBag({AdjointY(t[1][1], t[1][2], t[2]) :
                                      t \in {u \in Triples : Filters(u[1][1], u[1][2])[u[2]] = l}})} :
                 \A c \in YBlock(l) : grad_Y[c] = sum

C4_Witness ==
    /\ pc = "backward"
    /\ "Y" \in requires_grad
    /\ \E l \in Range(set_of_l_filters) :
          Cardinality({u \in Triples : Filters(u[1][1], u[1][2])[u[2]] = l}) >= 2
    /\ \E l \in Range(set_of_l_filters) : l \notin UsedOrders(get_l_filters)

\* C5 as stated: forward retains a tensor if and only if backward reads it,
\* and backward reads no tensor or shape that forward did not keep.
C5_RetainedIffRead ==
    /\ pc # "error"
    /\ pc = "backward" =>
          /\ ctx_saved = bwd_reads
          /\ bwd_shape_reads \subseteq ctx_shapes

\* C5 amended: backward never reads what forward did not keep; when at
\* least one pair has a non-empty filter list the retained tensors are
\* exactly the ones backward reads; with every list empty it reads none.
C5_RetainedIffReadWhenVisited ==
    /\ pc # "error"
    /\ pc = "backward" =>
          /\ bwd_reads \subseteq ctx_saved
          /\ bwd_shape_reads \subseteq ctx_shapes
          /\ Visited # {} => ctx_saved = bwd_reads
          /\ Visited = {} => bwd_reads = {}
          /\ ("F" \in ctx_saved) = ("Y" \in requires_grad \/ "R" \in requires_grad)
          /\ ("Y" \in ctx_saved) = ("F" \in requires_grad \/ "R" \in requires_grad)
          /\ ("R" \in ctx_saved) = ("F" \in requires_grad \/ "Y" \in requires_grad)

C5_Witness ==
    /\ pc = "backward"
    /\ requires_grad = {"F"}
    /\ Visited # {}
    /\ bwd_reads = {"R", "Y"}

\* C6: kernel_conv_fn_forward visits the pairs output-major; an empty pair
\* consumes no path entry, a non-empty one mul_out*mul_in*|filters| entries
\* starting where the previous one ended; the ranges start at 0 and end at
\* the n_path the test computes.
C6_PathLayout ==
    pc = "applied" =>
        /\ Len(fwd_trace) = Len(Rs_out) * Len(Rs_in)
        /\ \A x \in DOMAIN fwd_trace :
              /\ fwd_trace[x].i = ((x - 1) \div Len(Rs_in)) + 1
              /\ fwd_trace[x].j = ((x - 1) % Len(Rs_in)) + 1
              /\ fwd_trace[x].n = PairSize(fwd_trace[x].i, fwd_trace[x].j)
              /\ fwd_trace[x].begin_R =
                     IF x = 1 THEN 0 ELSE fwd_trace[x - 1].begin_R + fwd_trace[x - 1].n
        /\ fwd_trace[Len(fwd_trace)].begin_R + fwd_trace[Len(fwd_trace)].n = n_path

C6_Witness ==
    /\ pc = "applied"
    /\ \E x \in DOMAIN fwd_trace :
          /\ x > 1 /\ x < Len(fwd_trace)
          /\ fwd_trace[x].n = 0
          /\ fwd_trace[x - 1].n > 0
          /\ fwd_trace[x + 1].n > 0
          /\ fwd_trace[x + 1].begin_R = fwd_trace[x - 1].begin_R + fwd_trace[x - 1].n

\* C9: for every filter order k of set_of_l_filters, in whatever order the
\* list holds them, the slice the forward and the backward pass take from Y
\* is the block of k in the ascending concatenation; the slices are
\* disjoint and lie inside Y.
C9_HarmonicsSlices ==
    LET orders == Range(set_of_l_filters)
        taken(offset, k) == Channels(Slice(offset, offset + 2 * k + 1))
    IN \A block \in {[k \in orders |-> YBlock(k)]} :
       /\ \A k \in orders :
             /\ taken(fwd_offset(set_of_l_filters, k), k) = block[k]
             /\ taken(bwd_offset(set_of_l_filters, k), k) = block[k]
             /\ block[k] \subseteq 0..(y_dim(set_of_l_filters) - 1)
             /\ \A m \in orders : m # k => block[k] \cap block[m] = {}
       /\ \A x \in DOMAIN fwd_trace : \A k \in DOMAIN fwd_trace[x].offsets :
             taken(fwd_trace[x].offsets[k], fwd_trace[x].l_filters[k])
                 = block[fwd_trace[x].l_filters[k]]
       /\ \A x \in DOMAIN bwd_trace : \A k \in DOMAIN bwd_trace[x].offsets :
             taken(bwd_trace[x].offsets[k], bwd_trace[x].l_filters[k])
                 = block[bwd_trace[x].l_filters[k]]

C9_Witness ==
    /\ pc = "backward"
    /\ set_of_l_filters = <<1, 0>>
    /\ \E x \in DOMAIN bwd_trace : \E k \in DOMAIN bwd_trace[x].offsets :
          bwd_trace[x].l_filters[k] = 1 /\ bwd_trace[x].offsets[k] = 1

\* C10: backward visits the same blocks as the forward pass, with the same
\* channel slices, the same path range and the same Y offsets, whichever
\* gradients are requested; skipped pairs advance begin_R in neither.
C10_SameTraversal ==
    pc = "backward" => bwd_trace = fwd_trace

C10_Witness ==
    /\ pc = "backward"
    /\ "R" \notin requires_grad
    /\ \E x \in DOMAIN bwd_trace :
          /\ x > 1 /\ x < Len(bwd_trace)
          /\ bwd_trace[x].n = 0
          /\ bwd_trace[x - 1].n > 0
          /\ bwd_trace[x + 1].n > 0
          /\ bwd_trace[x + 1].begin_R > 0

\* C7: KernelConv.forward returns no output when the geometry's trailing
\* size is not 3 or the feature tensor's channel size is not dim(Rs_in).
C7_ShapeMismatchIsFatal ==
    pc = "returned" => (xyz = 3 /\ n_feat = dim(Rs_in))

====
